---- MODULE Spec2Model ----
(***************************************************************************)
(* WEPX weather toolkit: the cycle worker (run_model.py), the stream       *)
(* encoder (stream_encoder.py), the cycle scheduler (download.py) and the  *)
(* tail-streaming server (websocket.py).                                   *)
(*                                                                         *)
(* Several state machines share this module, each with its own Init/Next:     *)
(*   Spec      two workers of one (model, cycle), short URL list           *)
(*   SpecRun   one worker, a URL list long enough for two I-frame periods  *)
(*   SpecTail  one writer and one tail reader on one stream file (bytes)   *)
(*   SpecSched check_download_status on bounded clocks and schedules       *)
(*   SpecCodec the I-/P-frame quantizer on bounded rasters                 *)
(*   SpecTicks one worker per tick of the driver, several ticks            *)
(*   SpecDl    one call of download_url against a faulty network           *)
(*   SpecGen   one call of generate_url_list on bounded configurations     *)
(*   SpecDrv   the driver of one process, its models and their workers     *)
(*   SpecPar   two workers of different (model, cycle)                     *)
(* The variables of the machines a specification does not run stay at the  *)
(* idle values its Init gives them.                                        *)
(***************************************************************************)
EXTENDS Integers, Sequences, FiniteSets, TLC

VARIABLES
    \* ---- cycle worker (run_model.py) ----
    env,        \* what the run is given: the workers submitted, task.urls, the files' bands
    lock,       \* the lock files present in LOCK_DIR (one name per (model, cycle))
    pc,         \* pc[w]: where worker w stands in process_single_model
    idx,        \* idx[w]: the loop variable i over task.urls
    pending,    \* pending[w]: stream_results of the current URL not yet encoded
    streams,    \* streams[w]: variable_streams, STREAM_ID -> state or NoStream
    files,      \* files[<<stream, layer>>]: the records of a .timeseries file
    log,        \* log[w][s]: the encoder calls worker w made for stream s (history)
    \* ---- tail server (websocket.py) and the writer it tails ----
    tfile,      \* the bytes of the tailed file
    texists,    \* whether the tailed file exists
    wbuf,       \* bytes write_chunk has handed to the OS and that are not yet in the file
    written,    \* the (type, payload) pairs passed to write_chunk so far (history)
    offset,     \* FileWatcher.offset
    rpc,        \* the handler: "sleep" between polls, "read" inside read_new_frames
    sent,       \* the messages sent to the client, in order
    connected,  \* whether the client is still connected
    \* ---- scheduler (download.py) ----
    sched,      \* the model's schedule and the clock of one check
    status,     \* what check_download_status returned, or NotChecked
    \* ---- codec (stream_encoder.py) ----
    cin,        \* the rasters handed to the encoder: frame 0, previous, current
    dec,        \* the decoder: its stage, its state down the I-P chain and from the I-frame alone
    \* ---- downloader and URL list (download.py) ----
    dl,         \* one call of download_url: its attempts, the output file, its result
    gen         \* one call of generate_url_list: the configuration, the cycle, the list

orchVars  == <<env, lock, pc, idx, pending, streams, files, log>>
tailVars  == <<tfile, texists, wbuf, written, offset, rpc, sent, connected>>
schedVars == <<sched, status>>
codecVars == <<cin, dec>>
dlVars    == <<dl, gen>>
vars == <<orchVars, tailVars, schedVars, codecVars, dlVars>>

(***************************************************************************)
(* Bounds of the model.                                                    *)
(***************************************************************************)
NumUrls    == 2     \* len(task.urls) in Spec
GridWidth  == 5     \* pixels of a raster row (one row)
MaxVal     == 2     \* pixel values are 0..MaxVal, or NaN
LongUrls   == 17    \* len(task.urls) in SpecRun
MaxRecords == 2     \* write_chunk calls on the tailed file
MaxPayload == 2     \* bytes of a payload on the tailed file
MaxTicks   == 2     \* driver ticks after the first at which the cycle is still READY
MaxRetries == 3     \* max_retries of download_url
MaxChunks  == 2     \* chunks of a response body
MaxFhour   == 2     \* the longest forecast, in hours

(***************************************************************************)
(* Program constants.                                                      *)
(***************************************************************************)
TYPE_I_FRAME     == 0
TYPE_P_FRAME     == 1
I_FRAME_INTERVAL == 8
HEADER_SIZE      == 5
STREAM_MAIN      == 0
MetaPixels       == 4     \* MIN, RANGE, RES_MIN, RES_RANGE in pixels (0,0)..(0,3)
NaN              == 99    \* stands for the float NaN of numpy; no pixel value reaches it

(***************************************************************************)
(* Arithmetic helpers.                                                     *)
(***************************************************************************)
Min2(a, b) == IF a <= b THEN a ELSE b
Max2(a, b) == IF a >= b THEN a ELSE b
\* np.clip(x, lo, hi)
Clip(x, lo, hi) == Max2(lo, Min2(hi, x))
SetMin(S) == CHOOSE m \in S : \A y \in S : m <= y
SetMax(S) == CHOOSE m \in S : \A y \in S : m >= y
IsPrefix(s, t) == Len(s) <= Len(t) /\ SubSeq(t, 1, Len(s)) = s

(***************************************************************************)
(* stream_encoder.py: the quantizer.  A raster is one row of GridWidth     *)
(* pixels; a pixel is an integer or NaN.  MIN and RANGE are integers here, *)
(* RES_MIN and RES_RANGE are the rationals <<numerator, denominator>>.     *)
(* Arithmetic is exact; the lossless image and gzip containers are left    *)
(* out, a body is the pixel array they hold.                               *)
(***************************************************************************)
IsNaN(v) == v = NaN

\* renderImage, lines 75-95: the statistics of frame 0 that are frozen for the stream
Metadata(data) ==
    LET valid == {data[k] : k \in {j \in DOMAIN data : ~IsNaN(data[j])}}
        MIN   == IF valid = {} THEN 0 ELSE SetMin(valid)
        MAX   == IF valid = {} THEN 1 ELSE SetMax(valid)
        RANGE == IF MAX - MIN = 0 THEN 1 ELSE MAX - MIN
    IN  [MIN |-> MIN, RANGE |-> RANGE,
         RES_MIN |-> <<-RANGE, 10>>, RES_RANGE |-> <<RANGE, 5>>,
         WIDTH |-> Len(data), HEIGHT |-> 1]

\* np.nan_to_num(data_array, nan=metadata['MIN'])
NanToNum(data, metadata) ==
    [k \in DOMAIN data |-> IF IsNaN(data[k]) THEN metadata.MIN ELSE data[k]]

\* np.clip((x - MIN) / RANGE * 255, 0, 255).astype(np.uint8)
BaseOf(x, metadata) ==
    Clip(((x - metadata.MIN) * 255) \div metadata.RANGE, 0, 255)

\* np.clip((x - (base / 255 * RANGE + MIN) - RES_MIN) / RES_RANGE * 65535, 0, 65535)
\*   .astype(np.uint16), with 65535 / 255 = 257
ResOf(x, metadata) ==
    LET base == BaseOf(x, metadata)
        A    == (x - metadata.MIN) * 255 - base * metadata.RANGE
        a    == metadata.RES_MIN[1]
        b    == metadata.RES_MIN[2]
        c    == metadata.RES_RANGE[1]
        d    == metadata.RES_RANGE[2]
    IN  Clip(((A * b - 255 * a) * d * 257) \div (b * c), 0, 65535)

BaseLayer(data, metadata) ==
    LET filled == NanToNum(data, metadata)
    IN  [k \in DOMAIN data |-> BaseOf(filled[k], metadata)]

ResLayer(data, metadata) ==
    LET filled == NanToNum(data, metadata)
    IN  [k \in DOMAIN data |-> ResOf(filled[k], metadata)]

\* the largest k with 2^k <= n/d, for 2^-20 <= n/d < 2^21
FloorLog2(n, d) ==
    CHOOSE k \in -20..20 :
        /\ (IF k >= 0 THEN (2^k) * d <= n ELSE d <= n * (2^(-k)))
        /\ (IF k + 1 >= 0 THEN n < (2^(k + 1)) * d ELSE n * (2^(-(k + 1))) < d)

\* encode_meta_float, lines 12-38: sign and 7-bit exponent, then the top 16 bits of
\* the float32 mantissa (rounded to nearest on the way to 23 bits)
encode_meta_float(value) ==
    LET n   == IF value[1] < 0 THEN -value[1] ELSE value[1]
        d   == value[2]
        s   == IF value[1] < 0 THEN 1 ELSE 0
        k   == FloorLog2(n, d)
        num == IF k >= 0 THEN n ELSE n * (2^(-k))
        den == IF k >= 0 THEN d * (2^k) ELSE d
        m   == ((2 * (num - den) * 8388608) \div den + 1) \div 2
        e7  == Clip(k + 127 - 64, 0, 127)
        m16 == m \div 128
    IN  IF n = 0 THEN <<s * 128, 0, 0>>
        ELSE <<s * 128 + e7, (m16 \div 256) % 256, m16 % 256>>

\* appendIFrame, lines 137-146: the four metadata values, in pixel order
MetaValues(metadata) ==
    << <<metadata.MIN, 1>>, <<metadata.RANGE, 1>>, metadata.RES_MIN, metadata.RES_RANGE >>

\* prepare_payload, lines 40-54: the valid time, then the data bytes
prepare_payload(body, valid_time) == [valid_time |-> valid_time, body |-> body]

\* the first two bytes of the data bytes: "RI" of the RIFF container that
\* Image.save(format='WEBP') writes (lines 161, 167), the magic 1f 8b of
\* gzip.compress (lines 219-220)
BodyMagic(type) == IF type = TYPE_I_FRAME THEN <<82, 73>> ELSE <<31, 139>>

\* prepare_payload, lines 53-54, on bytes: struct.pack('<I', valid_time), then the
\* data bytes, of which the first two are given
PayloadHead(record) ==
    <<record.payload.valid_time % 256, (record.payload.valid_time \div 256) % 256,
      (record.payload.valid_time \div 65536) % 256,
      (record.payload.valid_time \div 16777216) % 256>> \o BodyMagic(record.type)

\* appendIFrame, lines 112-171: the RGBA base image with the metadata pixels
IFrameBase(data, metadata, valid_time) ==
    LET base  == BaseLayer(data, metadata)
        alpha == [k \in DOMAIN data |-> IF IsNaN(data[k]) THEN 0 ELSE 255]
        image == [k \in DOMAIN data |->
                    IF k <= MetaPixels
                    THEN encode_meta_float(MetaValues(metadata)[k]) \o <<255>>
                    ELSE <<base[k], base[k], base[k], alpha[k]>>]
    IN  [type |-> TYPE_I_FRAME, payload |-> prepare_payload(image, valid_time)]

\* appendIFrame, lines 121-127, 151-172: the 16-bit residual split over R and G
IFrameDetail(data, metadata, valid_time) ==
    LET res   == ResLayer(data, metadata)
        image == [k \in DOMAIN data |-> <<res[k] \div 256, res[k] % 256, 0>>]
    IN  [type |-> TYPE_I_FRAME, payload |-> prepare_payload(image, valid_time)]

\* appendImage, lines 188-223: the base delta against the requantized previous raster
PFrameBase(prev, curr, metadata, valid_time) ==
    LET base_curr == BaseLayer(curr, metadata)
        base_prev == BaseLayer(prev, metadata)
        delta     == [k \in DOMAIN curr |-> base_curr[k] - base_prev[k]]
    IN  [type |-> TYPE_P_FRAME, payload |-> prepare_payload(delta, valid_time)]

\* appendImage, lines 196-224: the residual delta
PFrameDetail(prev, curr, metadata, valid_time) ==
    LET res_curr == ResLayer(curr, metadata)
        res_prev == ResLayer(prev, metadata)
        delta    == [k \in DOMAIN curr |-> res_curr[k] - res_prev[k]]
    IN  [type |-> TYPE_P_FRAME, payload |-> prepare_payload(delta, valid_time)]


(***************************************************************************)
(* run_model.py: process_single_model.                                     *)
(*                                                                         *)
(* pc[w]: "check" (line 30), "create" (35), "fetch" (62, the head of the   *)
(* URL loop), "band" (85, the head of the band loop), "wbase" (inside      *)
(* renderImage, files deleted, frame 0 not yet written), "wdetail" (the    *)
(* base record is written, the detail record is not), "cleanup" (138),     *)
(* "unlock" (139), "done" (returned), "raised" (left by an exception),     *)
(* "off" (never submitted).                                                *)
(***************************************************************************)
Workers == {"w1", "w2"}
Models  == {"m1", "m2"}           \* model_obj.id
\* cycle times, in minutes since an epoch midnight: 12:00 and 18:00 of the second
\* day, 12:00 of the third
Noon       == 1440 + 12 * 60
CycleTimes == {Noon, Noon + 360, Noon + 1440}

\* a lock name made of the model id and the cycle's hour only
lock_filename_NoDate(model_id, cycle_time) == <<model_id, 0, (cycle_time \div 60) % 24>>

\* line 27: f"{model_obj.id}_{cycle_time.strftime('%Y%m%d_%H')}.lock", the parts of the
\* name: the model id, the cycle's date and its hour
lock_filename(model_id, cycle_time) ==
    <<model_id, cycle_time \div 1440, (cycle_time \div 60) % 24>>

Jobs    == {lock_filename(m, c) : m \in Models, c \in CycleTimes}
\* the (model, cycle) of the runs of one cycle
Job1    == lock_filename("m1", Noon)
Streams == {"s1", "s2"}           \* STREAM_ID
Layers  == {"base", "detail"}     \* <filepath>_base.timeseries, _detail.timeseries
FileIds == Jobs \X Streams \X Layers
NoStream == [frame_count |-> -1]

ZeroGrid == [k \in 1..GridWidth |-> 0]
\* a raster that is v in its first pixel and 0 elsewhere
Spike(v) == [k \in 1..GridWidth |-> IF k = 1 THEN v ELSE 0]

\* records a previous cycle left in a stream file
StaleTime == 0
StaleStream(layer) ==
    IF layer = "base"
    THEN << IFrameBase(ZeroGrid, Metadata(ZeroGrid), StaleTime),
            PFrameBase(ZeroGrid, ZeroGrid, Metadata(ZeroGrid), StaleTime) >>
    ELSE << IFrameDetail(ZeroGrid, Metadata(ZeroGrid), StaleTime),
            PFrameDetail(ZeroGrid, ZeroGrid, Metadata(ZeroGrid), StaleTime) >>

\* the raster of stream s in the file of task.urls[i], by the feed of the run:
\* "flat" repeats one raster, "rise" leaves the range of frame 0 from the second
\* frame on, "fall" starts at the widest range, "gaps" has NaN pixels that move
GridAt(feed, s, i) ==
    LET j == IF s = "s1" THEN i ELSE i + 1
    IN  CASE feed = "flat" -> ZeroGrid
          [] feed = "rise" -> Spike(Min2(j, MaxVal))
          [] feed = "fall" -> Spike((MaxVal + MaxVal * j) % (MaxVal + 1))
          [] OTHER         -> [k \in 1..GridWidth |->
                                 IF k % 2 = j % 2 THEN NaN ELSE (j + k) % (MaxVal + 1)]
Feeds == {"flat", "rise", "fall", "gaps"}

\* result['valid_time'] of the bands of task.urls[i]: the forecast hour
ValidTime(i) == 1 + i

\* one band dictionary of process_multi_band_grib
Band(s, i) ==
    [stream_id |-> s, data |-> GridAt(env.feed, s, i), valid_time |-> ValidTime(i)]

\* stream_results for task.urls[i]: every variable in each file ("all", the NOMADS
\* URL list), one variable per file in turn ("turns", the generic URL list), or a
\* single variable ("single")
StreamResults(i) ==
    CASE env.layout = "all"   -> <<Band("s1", i), Band("s2", i)>>
      [] env.layout = "turns" -> <<Band(IF i % 2 = 0 THEN "s1" ELSE "s2", i)>>
      [] OTHER                -> <<Band("s1", i)>>

Processing == {"fetch", "band", "wbase", "wdetail"}

\* a step of a worker leaves the other machines alone
OrchOnly == UNCHANGED <<tailVars, schedVars, codecVars, dlVars>>

\* a check that clears the lock it finds before it returns
LockCheck_ClearsLock(w) ==
    /\ pc[w] = "check"
    /\ \/ /\ env.job[w] \in lock
          /\ pc' = [pc EXCEPT ![w] = "done"]
          /\ lock' = lock \ {env.job[w]}
       \/ /\ env.job[w] \notin lock
          /\ pc' = [pc EXCEPT ![w] = "create"]
          /\ UNCHANGED lock
    /\ UNCHANGED <<env, idx, pending, streams, files, log>>
    /\ OrchOnly

\* lines 30-32: the lock file exists, skip
LockCheck(w) ==
    /\ pc[w] = "check"
    /\ \/ /\ env.job[w] \in lock
          /\ pc' = [pc EXCEPT ![w] = "done"]
       \/ /\ env.job[w] \notin lock
          /\ pc' = [pc EXCEPT ![w] = "create"]
    /\ UNCHANGED <<env, lock, idx, pending, streams, files, log>>
    /\ OrchOnly

\* lines 35-40: open(lock_filepath, 'w'), or the open fails and the worker returns
LockCreate(w) ==
    /\ pc[w] = "create"
    /\ \/ /\ lock' = lock \cup {env.job[w]}
          /\ pc' = [pc EXCEPT ![w] = "fetch"]
       \/ /\ pc' = [pc EXCEPT ![w] = "done"]
          /\ UNCHANGED lock
    /\ UNCHANGED <<env, idx, pending, streams, files, log>>
    /\ OrchOnly

\* line 62: the URL list is exhausted, the try block ends
LoopExit(w) ==
    /\ pc[w] = "fetch"
    /\ idx[w] = env.urls
    /\ pc' = [pc EXCEPT ![w] = "cleanup"]
    /\ UNCHANGED <<env, lock, idx, pending, streams, files, log>>
    /\ OrchOnly

\* a skip that counts a frame for every stream the run has initialized
SkipUrl_CountsFrame(w) ==
    /\ pc[w] = "fetch"
    /\ idx[w] < env.urls
    /\ idx[w] \in env.fail
    /\ idx' = [idx EXCEPT ![w] = idx[w] + 1]
    /\ streams' = [streams EXCEPT ![w] =
                      [s \in Streams |->
                          IF streams[w][s] = NoStream THEN NoStream
                          ELSE [streams[w][s] EXCEPT !.frame_count = @ + 1]]]
    /\ UNCHANGED <<env, lock, pc, pending, files, log>>
    /\ OrchOnly

\* lines 65-67 and 80-82: the download failed, or no band matched: next URL
SkipUrl(w) ==
    /\ pc[w] = "fetch"
    /\ idx[w] < env.urls
    /\ idx[w] \in env.fail
    /\ idx' = [idx EXCEPT ![w] = idx[w] + 1]
    /\ UNCHANGED <<env, lock, pc, pending, streams, files, log>>
    /\ OrchOnly

\* lines 65-78: the download and the band extraction succeed
FetchUrl(w) ==
    /\ pc[w] = "fetch"
    /\ idx[w] < env.urls
    /\ idx[w] \notin env.fail
    /\ pending' = [pending EXCEPT ![w] = StreamResults(idx[w])]
    /\ pc' = [pc EXCEPT ![w] = "band"]
    /\ UNCHANGED <<env, lock, idx, streams, files, log>>
    /\ OrchOnly

\* the cadence test on the count before its increment
IsIFrameTurn_OffByOne(current_frame_count) ==
    (current_frame_count - 1) % I_FRAME_INTERVAL = 0

\* line 121: current_frame_count % I_FRAME_INTERVAL == 0
IsIFrameTurn(current_frame_count) == current_frame_count % I_FRAME_INTERVAL = 0

\* metadata taken anew from the raster at hand
StateMetadata_Recomputed(state, data) == Metadata(data)

\* the metadata handed to the encoder for an existing stream (line 118)
StateMetadata(state, data) == state.metadata

\* the encoder call the head of pending[w] leads to: lines 102-124
Call(w) ==
    LET result == Head(pending[w])
        state  == streams[w][result.stream_id]
    IN  IF state = NoStream
        THEN [type |-> TYPE_I_FRAME, init |-> TRUE,
              metadata |-> Metadata(result.data),
              prev |-> result.data, data |-> result.data,
              valid_time |-> result.valid_time, frame_count |-> 0]
        ELSE [type |-> IF IsIFrameTurn(state.frame_count + 1)
                       THEN TYPE_I_FRAME ELSE TYPE_P_FRAME,
              init |-> FALSE,
              metadata |-> StateMetadata(state, result.data),
              prev |-> state.last_array, data |-> result.data,
              valid_time |-> result.valid_time,
              frame_count |-> state.frame_count + 1]

FileOf(w, stream_id, layer) == <<env.job[w], stream_id, layer>>

\* renderImage, lines 97-99: os.remove of both files of the stream
RemoveFiles(fs, w, stream_id) ==
    [f \in FileIds |->
        IF f[1] = env.job[w] /\ f[2] = stream_id THEN <<>> ELSE fs[f]]

\* lines 102-106 and renderImage 70-99: a stream seen for the first time
InitStream(w) ==
    /\ pc[w] = "band"
    /\ streams[w][Head(pending[w]).stream_id] = NoStream
    /\ files' = RemoveFiles(files, w, Head(pending[w]).stream_id)
    /\ pc' = [pc EXCEPT ![w] = "wbase"]
    /\ UNCHANGED <<env, lock, idx, pending, streams, log>>
    /\ OrchOnly

\* the record an encoder call appends to a layer's file
RecordOf(call, layer) ==
    IF call.type = TYPE_I_FRAME
    THEN IF layer = "base"
         THEN IFrameBase(call.data, call.metadata, call.valid_time)
         ELSE IFrameDetail(call.data, call.metadata, call.valid_time)
    ELSE IF layer = "base"
         THEN PFrameBase(call.prev, call.data, call.metadata, call.valid_time)
         ELSE PFrameDetail(call.prev, call.data, call.metadata, call.valid_time)

\* a write that puts the record in front of what the file holds
write_chunk_AtFront(file, record) == <<record>> \o file

\* open(..., "ab") and write_chunk, lines 56-63: the record goes to the end of the file
write_chunk(file, record) == Append(file, record)

\* open(filepath + "_base.timeseries", "ab"); write_chunk: lines 175-176, 227-228
WriteBase(w) ==
    /\ \/ pc[w] = "wbase"
       \/ pc[w] = "band" /\ streams[w][Head(pending[w]).stream_id] # NoStream
    /\ LET call == Call(w)
           s    == Head(pending[w]).stream_id
           f    == FileOf(w, s, "base")
       IN  /\ files' = [files EXCEPT ![f] = write_chunk(@, RecordOf(call, "base"))]
           /\ log' = [log EXCEPT ![w][s] = Append(@, call)]
    /\ pc' = [pc EXCEPT ![w] = "wdetail"]
    /\ UNCHANGED <<env, lock, idx, pending, streams>>
    /\ OrchOnly

\* a state that keeps the raster it had
LastArrayAfter_Kept(call) == call.prev

\* lines 110 and 126: 'last_array' becomes the raster just encoded
LastArrayAfter(call) == call.data

\* a state update that counts the frame for every stream of the run
WriteDetail_SharedCount(w) ==
    /\ pc[w] = "wdetail"
    /\ LET call == Call(w)
           s    == Head(pending[w]).stream_id
           f    == FileOf(w, s, "detail")
       IN  /\ files' = [files EXCEPT ![f] = Append(@, RecordOf(call, "detail"))]
           /\ streams' = [streams EXCEPT ![w] =
                            [t \in Streams |->
                               IF t = s
                               THEN [metadata |-> call.metadata,
                                     last_array |-> call.data,
                                     frame_count |-> call.frame_count]
                               ELSE IF streams[w][t] = NoStream THEN NoStream
                               ELSE [streams[w][t] EXCEPT !.frame_count = @ + 1]]]
    /\ pending' = [pending EXCEPT ![w] = Tail(@)]
    /\ IF Len(pending[w]) = 1
       THEN /\ pc' = [pc EXCEPT ![w] = "fetch"]
            /\ idx' = [idx EXCEPT ![w] = idx[w] + 1]
       ELSE /\ pc' = [pc EXCEPT ![w] = "band"]
            /\ UNCHANGED idx
    /\ UNCHANGED <<env, lock, log>>
    /\ OrchOnly

\* lines 178-179, 230-231, then the state update of lines 108-112 or 126-127
WriteDetail(w) ==
    /\ pc[w] = "wdetail"
    /\ LET call == Call(w)
           s    == Head(pending[w]).stream_id
           f    == FileOf(w, s, "detail")
       IN  /\ files' = [files EXCEPT ![f] = write_chunk(@, RecordOf(call, "detail"))]
           /\ streams' = [streams EXCEPT ![w][s] =
                            [metadata |-> call.metadata,
                             last_array |-> LastArrayAfter(call),
                             frame_count |-> call.frame_count]]
    /\ pending' = [pending EXCEPT ![w] = Tail(@)]
    /\ IF Len(pending[w]) = 1
       THEN /\ pc' = [pc EXCEPT ![w] = "fetch"]
            /\ idx' = [idx EXCEPT ![w] = idx[w] + 1]
       ELSE /\ pc' = [pc EXCEPT ![w] = "band"]
            /\ UNCHANGED idx
    /\ UNCHANGED <<env, lock, log>>
    /\ OrchOnly

\* an exception that leaves the worker without passing the finally block
Raise_NoFinally(w) ==
    /\ pc[w] \in Processing
    /\ pc' = [pc EXCEPT ![w] = "done"]
    /\ UNCHANGED <<env, lock, idx, pending, streams, files, log>>
    /\ OrchOnly

\* a handler that drops the failed URL and goes on with the next one
Raise_Continues(w) ==
    /\ pc[w] \in Processing
    /\ idx[w] < env.urls
    /\ pc' = [pc EXCEPT ![w] = "fetch"]
    /\ idx' = [idx EXCEPT ![w] = idx[w] + 1]
    /\ pending' = [pending EXCEPT ![w] = <<>>]
    /\ UNCHANGED <<env, lock, streams, files, log>>
    /\ OrchOnly

\* lines 131-132: a download, conversion or encoder call raises
Raise(w) ==
    /\ pc[w] \in Processing
    /\ pc' = [pc EXCEPT ![w] = "cleanup"]
    /\ UNCHANGED <<env, lock, idx, pending, streams, files, log>>
    /\ OrchOnly

\* line 138: os.path.exists(lock_filepath)
Cleanup(w) ==
    /\ pc[w] = "cleanup"
    /\ \/ /\ env.job[w] \in lock
          /\ pc' = [pc EXCEPT ![w] = "unlock"]
       \/ /\ env.job[w] \notin lock
          /\ pc' = [pc EXCEPT ![w] = "done"]
    /\ UNCHANGED <<env, lock, idx, pending, streams, files, log>>
    /\ OrchOnly

\* line 139: os.remove(lock_filepath); the removal of a lock that is already gone
\* raises FileNotFoundError out of the finally block, to the driver ("raised")
Unlock(w) ==
    /\ pc[w] = "unlock"
    /\ lock' = lock \ {env.job[w]}
    /\ pc' = [pc EXCEPT ![w] = IF env.job[w] \in lock THEN "done" ELSE "raised"]
    /\ UNCHANGED <<env, idx, pending, streams, files, log>>
    /\ OrchOnly

WorkerStep(w) ==
    \/ LockCheck(w)
    \/ LockCreate(w)
    \/ LoopExit(w)
    \/ SkipUrl(w)
    \/ FetchUrl(w)
    \/ InitStream(w)
    \/ WriteBase(w)
    \/ WriteDetail(w)
    \/ Raise(w)
    \/ Cleanup(w)
    \/ Unlock(w)

TailIdle ==
    /\ tfile = <<>> /\ texists = FALSE /\ wbuf = <<>> /\ written = <<>>
    /\ offset = 0 /\ rpc = "off" /\ sent = <<>> /\ connected = FALSE
SchedIdle == sched = <<>> /\ status = <<>>
CodecIdle == cin = <<>> /\ dec = <<>>
DlIdle == dl = <<>> /\ gen = <<>>

\* the state after the driver has submitted the workers of env
OrchInit(e, stale) ==
    /\ env = e
    /\ lock \in SUBSET (IF stale THEN {e.job[w] : w \in Workers} ELSE {})
    /\ pc = [w \in Workers |-> IF w \in e.workers THEN "check" ELSE "off"]
    /\ idx = [w \in Workers |-> 0]
    /\ pending = [w \in Workers |-> <<>>]
    /\ streams = [w \in Workers |-> [s \in Streams |-> NoStream]]
    /\ files \in {[f \in FileIds |-> <<>>],
                  [f \in FileIds |-> IF \E w \in Workers : f[1] = e.job[w]
                                      THEN StaleStream(f[3]) ELSE <<>>]}
    /\ log = [w \in Workers |-> [s \in Streams |-> <<>>]]

\* the URLs whose download fails or whose file has no matching band: none, or one
FailSets(urls) == {{}} \cup {{i} : i \in 0..urls - 1}

\* two workers submitted for the same (model, cycle), as by two drivers
RaceEnvs ==
    [workers : {Workers}, job : {[w \in Workers |-> Job1]}, urls : {NumUrls},
     layout : {"single", "all"}, feed : {"rise"}, fail : FailSets(NumUrls)]

\* one worker and a URL list of more than two I-frame periods
RunEnvs ==
    [workers : {{"w1"}}, job : {[w \in Workers |-> Job1]}, urls : {LongUrls},
     layout : {"single", "all", "turns"}, feed : Feeds, fail : FailSets(LongUrls)]

\* two workers of different (model, cycle), as submitted by one driver for two models
\* or by two drivers; env.stale is the set of locks earlier runs left
ParTasks ==
    {t \in [Workers -> Models \X CycleTimes] : t["w1"] = <<"m1", Noon>> /\ t["w2"] # t["w1"]}

ParEnvs ==
    UNION {[workers : {Workers},
            job : {[w \in Workers |-> lock_filename(t[w][1], t[w][2])]},
            task : {t}, urls : {1}, layout : {"single"}, feed : {"rise"},
            fail : FailSets(1),
            stale : SUBSET {lock_filename(t[w][1], t[w][2]) : w \in Workers}] :
           t \in ParTasks}

InitPar ==
    /\ \E e \in ParEnvs : OrchInit(e, TRUE) /\ lock = e.stale
    /\ TailIdle /\ SchedIdle /\ CodecIdle /\ DlIdle

Init == (\E e \in RaceEnvs : OrchInit(e, FALSE)) /\ TailIdle /\ SchedIdle /\ CodecIdle /\ DlIdle

InitRun == (\E e \in RunEnvs : OrchInit(e, TRUE)) /\ TailIdle /\ SchedIdle /\ CodecIdle /\ DlIdle

Next == \E w \in Workers : WorkerStep(w)

Spec == Init /\ [][Next]_vars

SpecRun == InitRun /\ [][Next]_vars

SpecPar == InitPar /\ [][Next]_vars

\* one worker per tick: the driver's loop calls main again while the cycle is READY
TickEnvs ==
    [workers : {{"w1"}}, job : {[w \in Workers |-> Job1]}, urls : {NumUrls},
     layout : {"single", "all", "turns"}, feed : Feeds, fail : FailSets(NumUrls),
     tick : {0}, completed : {FALSE}]

\* run_model.py lines 142-182: every future of the tick has returned, the driver
\* sleeps, and the next main() finds the cycle READY and submits its worker again.
\* env.completed records that a run has gone through its whole URL list.
Resubmit(w) ==
    /\ pc[w] = "done"
    /\ \A v \in Workers : pc[v] \in {"done", "off"}
    /\ env.tick < MaxTicks
    /\ env' = [env EXCEPT !.tick = @ + 1,
                          !.completed = @ \/ idx[w] = env.urls]
    /\ pc' = [pc EXCEPT ![w] = "check"]
    /\ idx' = [idx EXCEPT ![w] = 0]
    /\ pending' = [pending EXCEPT ![w] = <<>>]
    /\ streams' = [streams EXCEPT ![w] = [s \in Streams |-> NoStream]]
    /\ log' = [log EXCEPT ![w] = [s \in Streams |-> <<>>]]
    /\ UNCHANGED <<lock, files>>
    /\ OrchOnly

InitTicks == (\E e \in TickEnvs : OrchInit(e, FALSE)) /\ TailIdle /\ SchedIdle /\ CodecIdle /\ DlIdle

NextTicks == (\E w \in Workers : WorkerStep(w)) \/ (\E w \in Workers : Resubmit(w))

SpecTicks == InitTicks /\ [][NextTicks]_vars

(***************************************************************************)
(* stream_encoder.py write_chunk and websocket.py FileWatcher / handler, on *)
(* the bytes of one stream file.                                           *)
(***************************************************************************)
\* big-endian packing of the length
U32BE(n) == <<(n \div 16777216) % 256, (n \div 65536) % 256, (n \div 256) % 256, n % 256>>

\* struct.pack('<I', n): four bytes, least significant first
U32LE(n) == <<n % 256, (n \div 256) % 256, (n \div 65536) % 256, (n \div 16777216) % 256>>

\* struct.unpack('<I', b)
UnpackU32LE(b) == b[1] + 256 * b[2] + 65536 * b[3] + 16777216 * b[4]

\* write_chunk, lines 60-63: the bytes of one record
ChunkBytes(frame_type, payload) == U32LE(Len(payload)) \o <<frame_type>> \o payload

\* the payloads handed to write_chunk: up to MaxPayload bytes, counting up from 0 or
\* down from 255
TailPayloads ==
    {[k \in 1..n |-> IF up THEN k - 1 ELSE 256 - k] : n \in 0..MaxPayload, up \in BOOLEAN}

\* a reader that takes the payload bytes at hand without the length test of line 34
FrameAt_NoShortTest(bytes, off) ==
    LET avail == Len(bytes) - off
        length == UnpackU32LE(SubSeq(bytes, off + 1, off + 4))
    IN  IF avail < HEADER_SIZE
        THEN [ok |-> FALSE]
        ELSE [ok |-> TRUE, length |-> length, frame_type |-> bytes[off + HEADER_SIZE],
              data |-> SubSeq(bytes, off + HEADER_SIZE + 1,
                              Min2(off + HEADER_SIZE + length, Len(bytes)))]

\* read_new_frames, lines 28-37: the frame at offset off, or none when the header or
\* the payload is short
FrameAt(bytes, off) ==
    LET avail == Len(bytes) - off
        length == UnpackU32LE(SubSeq(bytes, off + 1, off + 4))
    IN  IF avail < HEADER_SIZE
        THEN [ok |-> FALSE]
        ELSE IF avail - HEADER_SIZE < length
             THEN [ok |-> FALSE]
             ELSE [ok |-> TRUE, length |-> length, frame_type |-> bytes[off + HEADER_SIZE],
                   data |-> SubSeq(bytes, off + HEADER_SIZE + 1, off + HEADER_SIZE + length)]

\* read_new_frames, line 39
NextOffset(off, length) == off + HEADER_SIZE + length

\* the frames read_new_frames yields from offset off on a file that stands still
RECURSIVE FramesFrom(_, _)
FramesFrom(bytes, off) ==
    LET fr == FrameAt(bytes, off)
    IN  IF fr.ok
        THEN <<[frame_type |-> fr.frame_type, data |-> fr.data]>>
                 \o FramesFrom(bytes, NextOffset(off, fr.length))
        ELSE <<>>

\* a message without the frame type
Message_NoType(sid, ftype, data) == <<sid>> \o data

\* handler, lines 77-78: struct.pack('BB', sid, ftype) + data
Message(sid, ftype, data) == <<sid, ftype>> \o data

TailOnly == UNCHANGED <<orchVars, schedVars, codecVars, dlVars>>

\* appendIFrame / appendImage: open(..., "ab") and write_chunk; the bytes sit in the
\* file object's buffer until they are flushed
WriteChunk ==
    /\ wbuf = <<>>
    /\ Len(written) < MaxRecords
    /\ \E frame_type \in {TYPE_I_FRAME, TYPE_P_FRAME} : \E payload \in TailPayloads :
          /\ wbuf' = ChunkBytes(frame_type, payload)
          /\ written' = Append(written, [frame_type |-> frame_type, data |-> payload])
    /\ texists' = TRUE
    /\ UNCHANGED <<tfile, offset, rpc, sent, connected>>
    /\ TailOnly

\* the next n buffered bytes reach the file (a flush, or the close of the file)
Flush ==
    /\ wbuf # <<>>
    /\ \E n \in 1..Len(wbuf) :
          /\ tfile' = tfile \o SubSeq(wbuf, 1, n)
          /\ wbuf' = SubSeq(wbuf, n + 1, Len(wbuf))
    /\ UNCHANGED <<texists, written, offset, rpc, sent, connected>>
    /\ TailOnly

\* handler, lines 56-69: a client connects, the watcher starts at offset 0
Connect ==
    /\ rpc = "off"
    /\ ~connected
    /\ sent = <<>>
    /\ connected' = TRUE
    /\ rpc' = "sleep"
    /\ offset' = 0
    /\ UNCHANGED <<tfile, texists, wbuf, written, sent>>
    /\ TailOnly

\* handler line 75 and read_new_frames lines 20-25: a poll starts
Poll ==
    /\ rpc = "sleep"
    /\ connected
    /\ rpc' = IF texists THEN "read" ELSE "sleep"
    /\ UNCHANGED <<tfile, texists, wbuf, written, offset, sent, connected>>
    /\ TailOnly

\* read_new_frames lines 27-40 and handler lines 75-79: one turn of the read loop
ReadFrame ==
    /\ rpc = "read"
    /\ connected
    /\ LET fr == FrameAt(tfile, offset)
       IN  IF fr.ok
           THEN /\ offset' = NextOffset(offset, fr.length)
                /\ sent' = Append(sent, Message(STREAM_MAIN, fr.frame_type, fr.data))
                /\ UNCHANGED rpc
           ELSE /\ rpc' = "sleep"
                /\ UNCHANGED <<offset, sent>>
    /\ UNCHANGED <<tfile, texists, wbuf, written, connected>>
    /\ TailOnly

\* handler, lines 84-85: the client closes the connection
Disconnect ==
    /\ connected
    /\ connected' = FALSE
    /\ rpc' = "closed"
    /\ UNCHANGED <<tfile, texists, wbuf, written, offset, sent>>
    /\ TailOnly

OrchIdle ==
    /\ env = <<>> /\ lock = {} /\ pc = <<>> /\ idx = <<>> /\ pending = <<>>
    /\ streams = <<>> /\ files = <<>> /\ log = <<>>

InitTail ==
    /\ tfile = <<>> /\ texists = FALSE /\ wbuf = <<>> /\ written = <<>>
    /\ offset = 0 /\ rpc = "off" /\ sent = <<>> /\ connected = FALSE
    /\ OrchIdle /\ SchedIdle /\ CodecIdle /\ DlIdle

NextTail == WriteChunk \/ Flush \/ Connect \/ Poll \/ ReadFrame \/ Disconnect

\* the handler's loop keeps running while the client is connected
SpecTail == InitTail /\ [][NextTail]_vars /\ WF_vars(Poll) /\ WF_vars(ReadFrame)

(***************************************************************************)
(* download.py WeatherModelConfig.check_download_status and the driver of  *)
(* run_model.py that calls it.  Times are minutes since an epoch midnight. *)
(***************************************************************************)
ScanHours == 24

\* best_cycle = None
None == -1

\* a scan that starts at the current time itself
FloorToHour_Kept(t) == t

\* current_time_utc.replace(minute=0, second=0, microsecond=0)
FloorToHour(t) == t - (t % 60)

\* check_time.hour
HourOf(t) == (t \div 60) % 24

\* a window test that leaves out both of its ends
InWindow_Open(start_window, t, end_window) == start_window < t /\ t < end_window

\* line 79: start_window <= current_time_utc <= end_window
InWindow(start_window, t, end_window) == start_window <= t /\ t <= end_window

\* a candidate that replaces the one kept so far
Keep_Last(best, found) == found

\* lines 83 and 89: a WAITING or MISSED candidate is kept only when none was kept before
Keep(best, found) == IF best.status = "NO_CYCLE" THEN found ELSE best

\* lines 70-93: the loop from turn i on, best being (best_status, best_cycle); scanned
\* counts the turns taken
RECURSIVE Scan(_, _, _, _)
Scan(cfg, current_time_utc, i, best) ==
    IF i = ScanHours
    THEN [best EXCEPT !.scanned = i]
    ELSE LET check_time   == FloorToHour(current_time_utc) - 60 * i
             start_window == check_time + cfg.lead_minutes
             end_window   == start_window + cfg.max_wait_minutes
         IN  IF HourOf(check_time) \in cfg.all_cycles
             THEN IF InWindow(start_window, current_time_utc, end_window)
                  THEN [status |-> "READY", cycle |-> check_time, mins |-> 0,
                        scanned |-> i + 1]
                  ELSE IF current_time_utc < start_window
                       THEN Scan(cfg, current_time_utc, i + 1,
                                 Keep(best, [status |-> "WAITING", cycle |-> check_time,
                                             mins |-> start_window - current_time_utc,
                                             scanned |-> 0]))
                       ELSE Scan(cfg, current_time_utc, i + 1,
                                 Keep(best, [status |-> "MISSED", cycle |-> check_time,
                                             mins |-> 0, scanned |-> 0]))
             ELSE Scan(cfg, current_time_utc, i + 1, best)

\* lines 60-93
check_download_status(cfg, current_time_utc) ==
    Scan(cfg, current_time_utc, 0,
         [status |-> "NO_CYCLE", cycle |-> None, mins |-> 0, scanned |-> 0])

\* the schedules of the model configurations (one of them with hours no day has) and
\* the waits the callers pass
CycleSets == {{}, {12}, {0, 6, 12, 18}, 0..23, {24, 30}}
LeadMinutes == {0, 30, 400}
MaxWaits == {0, 30, 40, 400}

\* the minutes of one day that has a day before it
Nows == 1440..2879

NotChecked == [status |-> "none", cycle |-> None, mins |-> 0, scanned |-> 0]

SchedOnly == UNCHANGED <<orchVars, tailVars, codecVars, dlVars>>

\* run_model.py main, line 152: the model's status at the current time
CheckStatus ==
    /\ status = NotChecked
    /\ status' = check_download_status(sched, sched.now)
    /\ UNCHANGED sched
    /\ SchedOnly

\* run_model.py lines 179-182: the driver sleeps and takes the time again
Tick ==
    /\ status # NotChecked
    /\ sched.now + 1 \in Nows
    /\ sched' = [sched EXCEPT !.now = @ + 1]
    /\ status' = NotChecked
    /\ SchedOnly

InitSched ==
    /\ sched \in [all_cycles : CycleSets, lead_minutes : LeadMinutes,
                  max_wait_minutes : MaxWaits, now : Nows]
    /\ status = NotChecked
    /\ OrchIdle /\ TailIdle /\ CodecIdle /\ DlIdle

NextSched == CheckStatus \/ Tick

SpecSched == InitSched /\ [][NextSched]_vars

(***************************************************************************)
(* run_model.py main and the loop that calls it: the driver of one process *)
(* with the models of CONFIG_DIR, and the workers it submits (SpecDrv).    *)
(* env.driver: "main" (about to call main), "wait" (inside the pool, lines *)
(* 166-177), "sleep" (line 182).  The k-th future is worker WorkerAt(k).   *)
(***************************************************************************)
MAX_WAIT_MINUTES == 40

\* the model files of CONFIG_DIR: an id and a schedule each
DrvConfigs(id) == [id : {id}, all_cycles : {{}, {12}, {12, 18}}, lead_minutes : {30}]

\* load_all_models: two models, of different ids or (two files of one id) of the same
DrvModelLists ==
    {<<a, b>> : a \in DrvConfigs("m1"),
                b \in DrvConfigs("m2") \cup {c \in DrvConfigs("m1") : c.all_cycles = {12}}}

\* the clock at the calls of main: 12:10, 12:30 and 18:30 of the second day
DrvNows == {Noon + 10, Noon + 30, Noon + 390}

\* line 152: model.check_download_status(current_time, MAX_WAIT_MINUTES)
StatusOf(model, current_time) ==
    check_download_status([all_cycles |-> model.all_cycles,
                           lead_minutes |-> model.lead_minutes,
                           max_wait_minutes |-> MAX_WAIT_MINUTES], current_time)

\* a selection that takes the models that are waiting for their window as well
Selected_Waiting(result) == result.status \in {"READY", "WAITING"}

\* line 154: status == "READY"
Selected(result) == result.status = "READY"

\* lines 147-157: tasks_to_run, from the k-th model on
RECURSIVE TasksToRun(_, _, _)
TasksToRun(models, current_time, k) ==
    IF k > Len(models) THEN <<>>
    ELSE LET result == StatusOf(models[k], current_time)
         IN  (IF Selected(result)
              THEN <<[k |-> k, model |-> models[k].id, cycle |-> result.cycle]>>
              ELSE <<>>) \o TasksToRun(models, current_time, k + 1)

\* the process that runs the k-th future
WorkerAt(k) == IF k = 1 THEN "w1" ELSE "w2"

\* lines 142-169: main takes the time, selects the models and submits their workers;
\* with no task it returns at once (lines 159-161)
Main ==
    /\ env.driver = "main"
    /\ LET tasks == TasksToRun(sched.models, sched.now, 1)
           ws    == {WorkerAt(j) : j \in 1..Len(tasks)}
       IN  /\ env' = [env EXCEPT
                        !.driver = IF tasks = <<>> THEN "sleep" ELSE "wait",
                        !.tasks = tasks,
                        !.workers = ws,
                        !.job = [w \in Workers |->
                                   IF \E j \in 1..Len(tasks) : WorkerAt(j) = w
                                   THEN LET j == CHOOSE i \in 1..Len(tasks) : WorkerAt(i) = w
                                        IN  lock_filename(tasks[j].model, tasks[j].cycle)
                                   ELSE Job1]]
           /\ pc' = [w \in Workers |-> IF w \in ws THEN "check" ELSE "off"]
    /\ idx' = [w \in Workers |-> 0]
    /\ pending' = [w \in Workers |-> <<>>]
    /\ streams' = [w \in Workers |-> [s \in Streams |-> NoStream]]
    /\ log' = [w \in Workers |-> [s \in Streams |-> <<>>]]
    /\ UNCHANGED <<lock, files>>
    /\ UNCHANGED <<tailVars, schedVars, codecVars, dlVars>>

\* a pool that is left while its workers are still running
Join_NoWait ==
    /\ env.driver = "wait"
    /\ env' = [env EXCEPT !.driver = "sleep"]
    /\ UNCHANGED <<lock, pc, idx, pending, streams, files, log>>
    /\ UNCHANGED <<tailVars, schedVars, codecVars, dlVars>>

\* lines 172-177 and the end of the with block: every future has returned or raised
Join ==
    /\ env.driver = "wait"
    /\ \A w \in env.workers : pc[w] \in {"done", "raised"}
    /\ env' = [env EXCEPT !.driver = "sleep"]
    /\ UNCHANGED <<lock, pc, idx, pending, streams, files, log>>
    /\ UNCHANGED <<tailVars, schedVars, codecVars, dlVars>>

\* lines 180-182: time.sleep(10), then the next call of main at a later time
Sleep ==
    /\ env.driver = "sleep"
    /\ env.tick < MaxTicks
    /\ \E t \in DrvNows :
          /\ t >= sched.now
          /\ sched' = [sched EXCEPT !.now = t]
    /\ env' = [env EXCEPT !.driver = "main", !.tick = @ + 1]
    /\ UNCHANGED <<lock, pc, idx, pending, streams, files, log, status>>
    /\ UNCHANGED <<tailVars, codecVars, dlVars>>

DrvEnvs ==
    [workers : {{}}, job : {[w \in Workers |-> Job1]}, urls : {1},
     layout : {"single"}, feed : {"rise"}, fail : FailSets(1),
     tick : {0}, driver : {"main"}, tasks : {<<>>}]

InitDrv ==
    /\ env \in DrvEnvs
    /\ lock = {}
    /\ pc = [w \in Workers |-> "off"]
    /\ idx = [w \in Workers |-> 0]
    /\ pending = [w \in Workers |-> <<>>]
    /\ streams = [w \in Workers |-> [s \in Streams |-> NoStream]]
    /\ files = [f \in FileIds |-> <<>>]
    /\ log = [w \in Workers |-> [s \in Streams |-> <<>>]]
    /\ sched \in [models : DrvModelLists, now : DrvNows]
    /\ status = <<>>
    /\ TailIdle /\ CodecIdle /\ DlIdle

NextDrv == Main \/ Join \/ Sleep \/ (\E w \in Workers : WorkerStep(w))

SpecDrv == InitDrv /\ [][NextDrv]_vars

(***************************************************************************)
(* The codec on its own: the frames appendIFrame and appendImage write for *)
(* two rasters of a stream, and the state a decoder builds from them.  The *)
(* decoder is the frontend's; it keeps the integers of the last I-frame's  *)
(* images and adds the deltas of the P-frames that follow.                 *)
(***************************************************************************)
\* rasters that differ in the first pixel, which appendIFrame gives to the metadata,
\* and in the last one
CodecGrids ==
    {[k \in 1..GridWidth |-> IF k = 1 THEN a
                             ELSE IF k = GridWidth THEN b
                             ELSE IF k = 2 THEN MaxVal ELSE 0] :
        a \in (0..MaxVal) \cup {NaN}, b \in (0..MaxVal) \cup {NaN}}

\* the decoder's state from an I-frame: the base of the R channel, the residual of
\* R * 256 + G
DecodeI(base_record, detail_record) ==
    [base |-> [k \in DOMAIN base_record.payload.body |-> base_record.payload.body[k][1]],
     res  |-> [k \in DOMAIN detail_record.payload.body |->
                  detail_record.payload.body[k][1] * 256 + detail_record.payload.body[k][2]]]

\* the decoder's state after a P-frame: the deltas added to the state
ApplyP(state, base_record, detail_record) ==
    [base |-> [k \in DOMAIN state.base |-> state.base[k] + base_record.payload.body[k]],
     res  |-> [k \in DOMAIN state.res |-> state.res[k] + detail_record.payload.body[k]]]

CodecOnly == UNCHANGED <<orchVars, tailVars, schedVars, dlVars>>

\* appendIFrame(G_prev) under the stream's metadata, decoded
DecodeIPrev ==
    /\ dec.stage = "start"
    /\ LET metadata == Metadata(cin.first)
       IN  dec' = [dec EXCEPT !.stage = "iprev",
                              !.chain = DecodeI(IFrameBase(cin.prev, metadata, 1),
                                                IFrameDetail(cin.prev, metadata, 1))]
    /\ UNCHANGED cin
    /\ CodecOnly

\* appendImage(G_prev, G_curr) under the stream's metadata, applied
ApplyPFrame ==
    /\ dec.stage = "iprev"
    /\ LET metadata == Metadata(cin.first)
       IN  dec' = [dec EXCEPT !.stage = "p",
                              !.chain = ApplyP(dec.chain,
                                               PFrameBase(cin.prev, cin.curr, metadata, 2),
                                               PFrameDetail(cin.prev, cin.curr, metadata, 2))]
    /\ UNCHANGED cin
    /\ CodecOnly

\* appendIFrame(G_curr) under the stream's metadata, decoded alone
DecodeICurr ==
    /\ dec.stage = "p"
    /\ LET metadata == Metadata(cin.first)
       IN  dec' = [dec EXCEPT !.stage = "done",
                              !.alone = DecodeI(IFrameBase(cin.curr, metadata, 2),
                                                IFrameDetail(cin.curr, metadata, 2))]
    /\ UNCHANGED cin
    /\ CodecOnly

InitCodec ==
    /\ cin \in [first : CodecGrids, prev : CodecGrids, curr : CodecGrids]
    /\ dec = [stage |-> "start", chain |-> <<>>, alone |-> <<>>]
    /\ OrchIdle /\ TailIdle /\ SchedIdle /\ DlIdle

NextCodec == DecodeIPrev \/ ApplyPFrame \/ DecodeICurr

SpecCodec == InitCodec /\ [][NextCodec]_vars

(***************************************************************************)
(* download.py download_url: the retry loop of lines 218-240 against a     *)
(* network that fails in every way requests reports.  dl.size is the size  *)
(* of the output file in chunks, Absent when there is no file.             *)
(***************************************************************************)
Absent == -1
Sizes == 0..MaxChunks

\* requests.get (line 221) or raise_for_status (line 222) raises a RequestException
RequestErrors == {"timeout", "connection", "http4xx", "http5xx"}

\* a test that takes any existing file
Succeeded_AnySize(size) == size # Absent /\ size >= 0

\* line 230: os.path.exists(output_filename) and os.path.getsize(output_filename) > 0
Succeeded(size) == size # Absent /\ size > 0

\* lines 233-236: time.sleep(retry_delay) unless this was the last attempt
SleepAfter(d) == IF Len(d.attempts) + 1 < d.max_retries THEN d.slept + 1 ELSE d.slept

DlOnly == UNCHANGED <<orchVars, tailVars, schedVars, codecVars, gen>>

\* line 219: the loop has an attempt left
CanAttempt == dl.result = "running" /\ Len(dl.attempts) < dl.max_retries

\* lines 221-222, 233-238: the request fails before the output file is opened
RequestFails ==
    /\ CanAttempt
    /\ \E kind \in RequestErrors :
          dl' = [dl EXCEPT !.attempts = Append(@, [kind |-> kind, size |-> dl.size]),
                           !.slept = SleepAfter(dl)]
    /\ DlOnly

\* lines 226-228, 233-238: the file is opened with 'wb' and the stream breaks after k
\* chunks
StreamBreaks ==
    /\ CanAttempt
    /\ \E k \in Sizes :
          dl' = [dl EXCEPT !.attempts = Append(@, [kind |-> "broken", size |-> k]),
                           !.size = k,
                           !.slept = SleepAfter(dl)]
    /\ DlOnly

\* lines 221-231: the response is written whole, k chunks; the size test of line 230
Completes ==
    /\ CanAttempt
    /\ \E k \in Sizes :
          dl' = [dl EXCEPT !.attempts = Append(@, [kind |-> "ok", size |-> k]),
                           !.size = k,
                           !.result = IF Succeeded(k) THEN "path" ELSE "running"]
    /\ DlOnly

\* lines 223-228: os.makedirs, open or write raises an OSError, which is no
\* RequestException and leaves download_url
OtherError ==
    /\ CanAttempt
    /\ \E k \in Sizes \cup {dl.size} :
          dl' = [dl EXCEPT !.attempts = Append(@, [kind |-> "oserror", size |-> k]),
                           !.size = k,
                           !.result = "raised"]
    /\ DlOnly

\* line 240: return False
GiveUp ==
    /\ dl.result = "running"
    /\ Len(dl.attempts) = dl.max_retries
    /\ dl' = [dl EXCEPT !.result = "False"]
    /\ DlOnly

InitDl ==
    /\ dl \in [max_retries : 0..MaxRetries, attempts : {<<>>}, size : {Absent} \cup Sizes,
               result : {"running"}, slept : {0}]
    /\ gen = <<>>
    /\ OrchIdle /\ TailIdle /\ SchedIdle /\ CodecIdle

NextDl == RequestFails \/ StreamBreaks \/ Completes \/ OtherError \/ GiveUp

SpecDl == InitDl /\ [][NextDl]_vars

(***************************************************************************)
(* download.py get_forecast_duration and generate_url_list.  A URL is the  *)
(* record of what the templates are filled with: the cycle, the formatted  *)
(* forecast hour (its decimal digits) and the (url_id, url_level) pairs of *)
(* the query.                                                              *)
(***************************************************************************)
\* the hours of the schedule section of a model's YAML file
\* (hour 3 is in both applies_to_hours lists, hour 9 in none)
LongRunHours == {0, 3}
ShortRunHours == {3, 6}

\* a lookup that tries the short run before the long run
get_forecast_duration_ShortFirst(cfg, cycle_hour) ==
    IF cfg.cycle_configs
    THEN IF cycle_hour \in ShortRunHours THEN cfg.short_run
         ELSE IF cycle_hour \in LongRunHours THEN cfg.long_run
         ELSE 0
    ELSE IF cycle_hour \in LongRunHours \cup ShortRunHours THEN cfg.forecast_hours
         ELSE 0

\* get_forecast_duration, lines 43-58: the long run, the short run, or without
\* cycle_configs (the except branch) forecast_hours for a cycle of all_cycles; else 0
get_forecast_duration(cfg, cycle_hour) ==
    IF cfg.cycle_configs
    THEN IF cycle_hour \in LongRunHours THEN cfg.long_run
         ELSE IF cycle_hour \in ShortRunHours THEN cfg.short_run
         ELSE 0
    ELSE IF cycle_hour \in LongRunHours \cup ShortRunHours THEN cfg.forecast_hours
         ELSE 0

\* the decimal digits of n, most significant first
RECURSIVE Digits(_)
Digits(n) == IF n < 10 THEN <<n>> ELSE Append(Digits(n \div 10), n % 10)

\* f"{fhour:0{self.fhour_digits}d}": zero-padded to at least fhour_digits digits
RECURSIVE ZeroPad(_, _)
ZeroPad(ds, width) == IF Len(ds) >= width THEN ds ELSE ZeroPad(<<0>> \o ds, width)
FormatFhour(fhour, fhour_digits) == ZeroPad(Digits(fhour), fhour_digits)

\* url_variable_template.format(url_id=..., url_level=...)
Param(var_config) == <<var_config.url_id, var_config.url_level>>

\* a loop over the forecast hours that leaves out the last one
LastFhour_Exclusive(max_fhour) == max_fhour - 1

\* lines 108 and 143: range(max_fhour + 1) ends at max_fhour
LastFhour(max_fhour) == max_fhour

\* lines 108-139: one URL per forecast hour from fhour on, the parameters of every
\* variable joined
RECURSIVE NomadsUrls(_, _, _, _)
NomadsUrls(cfg, cycle, fhour, last) ==
    IF fhour > last THEN <<>>
    ELSE <<[cycle |-> cycle, fhour |-> FormatFhour(fhour, cfg.fhour_digits),
            query |-> [i \in DOMAIN cfg.variables |-> Param(cfg.variables[i])]]>>
             \o NomadsUrls(cfg, cycle, fhour + 1, last)

\* lines 145-160: the variables from index i on at one forecast hour, the skipped left out
RECURSIVE VariableUrls(_, _, _, _)
VariableUrls(cfg, cycle, fhour, i) ==
    IF i > Len(cfg.variables) THEN <<>>
    ELSE IF fhour \in cfg.variables[i].skip
         THEN VariableUrls(cfg, cycle, fhour, i + 1)
         ELSE <<[cycle |-> cycle, fhour |-> FormatFhour(fhour, cfg.fhour_digits),
                 query |-> <<Param(cfg.variables[i])>>]>>
                  \o VariableUrls(cfg, cycle, fhour, i + 1)

\* lines 143-160
RECURSIVE GenericUrls(_, _, _, _)
GenericUrls(cfg, cycle, fhour, last) ==
    IF fhour > last THEN <<>>
    ELSE VariableUrls(cfg, cycle, fhour, 1) \o GenericUrls(cfg, cycle, fhour + 1, last)

\* lines 95-162
generate_url_list(cfg, cycle) ==
    LET max_fhour == get_forecast_duration(cfg, cycle)
    IN  IF cfg.source_agency = "NOMADS"
        THEN NomadsUrls(cfg, cycle, 0, LastFhour(max_fhour))
        ELSE GenericUrls(cfg, cycle, 0, LastFhour(max_fhour))

\* the variables sections: up to two variables with their skip lists
VarConfigs(url_id) ==
    [url_id : {url_id}, url_level : {"surface"}, skip : SUBSET (0..MaxFhour)]
VariableLists ==
    {<<>>} \cup {<<v>> : v \in VarConfigs("TMP")}
           \cup {<<v, u>> : v \in VarConfigs("TMP"), u \in VarConfigs("REFC")}

GenConfigs ==
    [source_agency : {"NOMADS", "ECCC"}, fhour_digits : {2}, variables : VariableLists,
     cycle_configs : BOOLEAN, long_run : {MaxFhour}, short_run : {0, 1},
     forecast_hours : {MaxFhour}]

GenOnly == UNCHANGED <<orchVars, tailVars, schedVars, codecVars, dl>>

\* create_task, lines 164-166: urls = self.generate_url_list(cycle_time)
GenerateUrls ==
    /\ ~gen.done
    /\ gen' = [gen EXCEPT !.urls = generate_url_list(gen.cfg, gen.cycle), !.done = TRUE]
    /\ GenOnly

\* the task of another cycle of the day is created
NextCycle ==
    /\ gen.done
    /\ \E h \in {0, 3, 6, 9} :
          /\ h > gen.cycle
          /\ gen' = [gen EXCEPT !.cycle = h, !.urls = <<>>, !.done = FALSE]
    /\ GenOnly

InitGen ==
    /\ gen \in [cfg : GenConfigs, cycle : {0}, urls : {<<>>}, done : {FALSE}]
    /\ dl = <<>>
    /\ OrchIdle /\ TailIdle /\ SchedIdle /\ CodecIdle

NextGen == GenerateUrls \/ NextCycle

SpecGen == InitGen /\ [][NextGen]_vars

(***************************************************************************)
(* Claims on the cycle worker.                                             *)
(***************************************************************************)
TypesOf(calls) == [k \in 1..Len(calls) |-> calls[k].type]
I == TYPE_I_FRAME
P == TYPE_P_FRAME

\* C1: within one run, the n-th frame a worker appends to a stream after frame 0 is
\* an I-frame exactly when n is a multiple of 8 and a P-frame otherwise; of k such
\* appends floor(k/8) are I-frames; 17 frames have the types I, P x7, I, P x7, I; and
\* with one worker the base file's records have these types.
C1_Cadence ==
    \A w \in Workers : \A s \in Streams :
        LET L == log[w][s]
            k == Len(L) - 1
        IN  Len(L) >= 1 =>
              /\ L[1].type = I
              /\ \A n \in 1..k : L[n + 1].type = (IF n % 8 = 0 THEN I ELSE P)
              /\ Cardinality({n \in 1..k : L[n + 1].type = I}) = k \div 8
              /\ Len(L) = 17 =>
                   TypesOf(L) = <<I, P, P, P, P, P, P, P, I, P, P, P, P, P, P, P, I>>
              /\ env.workers = {w} =>
                   TypesOf(files[FileOf(w, s, "base")]) = TypesOf(L)

\* 17 frames of one stream have been appended
C1_Witness ==
    \E w \in Workers : \E s \in Streams :
        /\ Len(log[w][s]) = 17
        /\ Len(files[FileOf(w, s, "base")]) = 17

\* C2: of two workers of the same (model, cycle) at most one is past the lock at any
\* time, so that no two of them download and append for that cycle together.
C2_ExactlyOneProceeds ==
    \A w \in Workers : \A v \in Workers :
        (w # v /\ env.job[w] = env.job[v]) =>
            ~(pc[w] \in Processing /\ pc[v] \in Processing)

\* C7: every encoder call of a run for a stream is handed the metadata computed from
\* the stream's frame 0, the stream's state holds it, and (one worker) every record
\* of the stream's files is the encoding under that metadata.
C7_MetadataFrozen ==
    \A w \in Workers : \A s \in Streams :
        LET L      == log[w][s]
            frozen == Metadata(L[1].data)
        IN  Len(L) >= 1 =>
              /\ \A k \in 1..Len(L) : L[k].metadata = frozen
              /\ streams[w][s] # NoStream => streams[w][s].metadata = frozen
              /\ env.workers = {w} =>
                   \A layer \in Layers :
                       LET file == files[FileOf(w, s, layer)]
                       IN  /\ Len(file) <= Len(L)
                           /\ \A k \in 1..Len(file) :
                                 file[k] = RecordOf([L[k] EXCEPT !.metadata = frozen], layer)

\* a stream has had a later I-frame and a later P-frame whose rasters have other
\* statistics than frame 0
C7_Witness ==
    \E w \in Workers : \E s \in Streams :
        LET L == log[w][s]
        IN  /\ Len(L) >= 10
            /\ L[9].type = I /\ L[10].type = P
            /\ Metadata(L[9].data) # Metadata(L[1].data)
            /\ Metadata(L[10].data) # Metadata(L[1].data)
            /\ Len(files[FileOf(w, s, "detail")]) = 10

\* C9: the first record of every stream file a run has written is an I-frame.
C9_FirstRecordIFrame ==
    \A f \in FileIds :
        ((\E w \in Workers : env.job[w] = f[1] /\ log[w][f[2]] # <<>>) /\ files[f] # <<>>)
            => files[f][1].type = I

\* C10: while a run is under way, the files of a stream it has initialized only grow:
\* each step leaves what they held as a prefix of what they hold.
C10_AppendOnly ==
    [][\A w \in Workers : \A s \in Streams : \A layer \in Layers :
          (streams[w][s] # NoStream /\ pc[w] \in Processing)
              => IsPrefix(files[FileOf(w, s, layer)], files'[FileOf(w, s, layer)])]_vars

(***************************************************************************)
(* Claims on the record framing and the tail server (SpecTail).           *)
(***************************************************************************)
\* the offset at which the k-th written record ends in the file
RECURSIVE EndOf(_)
EndOf(k) == IF k = 0 THEN 0 ELSE EndOf(k - 1) + HEADER_SIZE + Len(written[k].data)

\* the k-th written record has reached the file whole
Complete(k) == k <= Len(written) /\ Len(tfile) >= EndOf(k)

\* the messages sent are the records of the file in order, each as 0x00, type, payload
SentIsPrefix ==
    /\ Len(sent) <= Len(written)
    /\ \A k \in 1..Len(sent) :
          /\ Complete(k)
          /\ sent[k] = <<0, written[k].frame_type>> \o written[k].data

\* C3: the messages sent to a client are at all times a prefix of the file's complete
\* records in file order, the message of a record being the byte 0x00, the record's
\* type byte and its payload; and while the client stays connected every complete
\* record of the file is eventually sent.
C3_TailDelivery ==
    /\ []SentIsPrefix
    /\ \A k \in 1..MaxRecords :
          (Complete(k) /\ connected) ~> (Len(sent) >= k \/ ~connected)

\* a client that connected before the file existed has been sent every record, the
\* last one with a payload
C3_Witness ==
    /\ connected
    /\ Len(written) = MaxRecords
    /\ Len(sent) = MaxRecords
    /\ Len(sent[1]) = 2
    /\ Len(sent[MaxRecords]) = 2 + MaxPayload

\* C6: parsing the file yields exactly the (type, payload) pairs of the write_chunk
\* calls whose records are whole, each header's length being its payload's length;
\* a final record cut at any byte is not returned and leaves the records before it
\* parsed as written.
C6_RoundTrip ==
    LET n == IF wbuf = <<>> THEN Len(written) ELSE Len(written) - 1
    IN  /\ FramesFrom(tfile, 0) = SubSeq(written, 1, n)
        /\ \A k \in 1..n :
              /\ Complete(k)
              /\ UnpackU32LE(SubSeq(tfile, EndOf(k - 1) + 1, EndOf(k - 1) + 4))
                     = Len(written[k].data)
              /\ EndOf(k) - EndOf(k - 1) - HEADER_SIZE = Len(written[k].data)

\* the file holds a whole record with a payload and a final record cut inside its
\* payload
C6_Witness ==
    /\ Len(written) = 2
    /\ wbuf # <<>>
    /\ written[1].data # <<>>
    /\ Len(tfile) > EndOf(1) + HEADER_SIZE
    /\ Len(FramesFrom(tfile, 0)) = 1

(***************************************************************************)
(* Claims on check_download_status (SpecSched).                            *)
(***************************************************************************)
\* the hour-aligned times the scan looks at
Candidates == {FloorToHour(sched.now) - 60 * i : i \in 0..23}

\* the candidates whose hour is a cycle of the model
Cycles == {c \in Candidates : HourOf(c) \in sched.all_cycles}

Ready(c) ==
    /\ c + sched.lead_minutes <= sched.now
    /\ sched.now <= c + sched.lead_minutes + sched.max_wait_minutes

Waiting(c) == sched.now < c + sched.lead_minutes

C5_Priority ==
    status # NotChecked =>
        LET ready   == {c \in Cycles : Ready(c)}
            waiting == {c \in Cycles : Waiting(c)}
        IN  /\ status.status =
                  IF ready # {} THEN "READY"
                  ELSE IF waiting # {} THEN "WAITING"
                  ELSE IF Cycles # {} THEN "MISSED"
                  ELSE "NO_CYCLE"
            /\ status.status = "WAITING" =>
                  /\ status.cycle = SetMax(Cycles)
                  /\ status.mins = status.cycle + sched.lead_minutes - sched.now
            /\ status.status = "MISSED" =>
                  /\ status.cycle = SetMax(Cycles)
                  /\ \A c \in Cycles :
                        sched.now > c + sched.lead_minutes + sched.max_wait_minutes
            /\ status.status = "NO_CYCLE" => status.cycle = None

\* READY is returned for a cycle although a later candidate, seen before it in the
\* scan, is still waiting for its window
C5_Witness ==
    /\ status.status = "READY"
    /\ \E c \in Cycles : c > status.cycle /\ Waiting(c)

(***************************************************************************)
(* Claims on the codec (SpecCodec).                                        *)
(***************************************************************************)
\* C8: under one metadata, the decoder state after the I-frame of G_prev and the
\* P-frame P(G_prev, G_curr) equals, pixel by pixel, the state after the I-frame of
\* G_curr alone.
C8_PFrameEquivalence ==
    dec.stage = "done" =>
        /\ dec.chain.base = dec.alone.base
        /\ dec.chain.res = dec.alone.res

(***************************************************************************)
(* Claims on the lock and on the driver's ticks (SpecTicks, Spec).         *)
(***************************************************************************)
\* C11: a worker that has acquired the lock leaves process_single_model only through
\* the finally block, and at the step at which it returns the lock of its
\* (model, cycle) is absent; a worker that has returned holds no lock, so that the
\* next tick finds the lock absent.
C11_LockRemoved ==
    /\ [](\A w \in Workers : pc[w] = "done" => env.job[w] \notin lock)
    /\ [][\A w \in Workers :
            (pc[w] # "done" /\ pc'[w] = "done" /\ pc[w] \notin {"check", "create"})
                => /\ pc[w] \in {"cleanup", "unlock"}
                   /\ env.job[w] \notin lock']_vars

\* a run that ended by an exception has returned without the lock, and the worker of
\* a later tick has acquired it again
C11_Witness ==
    /\ env.tick = 1
    /\ ~env.completed
    /\ pc["w1"] = "fetch"
    /\ Job1 \in lock

(***************************************************************************)
(* Claims on download_url (SpecDl).                                        *)
(***************************************************************************)
\* the k-th attempt went through without an error and left a file of size > 0
Good(k) == dl.attempts[k].kind = "ok" /\ dl.attempts[k].size > 0

\* C12 as stated: no attempt follows one that leaves an existing output file of
\* size > 0, the path is returned after such an attempt, and False is returned only
\* when no attempt left such a file.
C12_StopsAtFirstFile ==
    /\ \A k \in 1..Len(dl.attempts) :
          dl.attempts[k].size > 0 => (k = Len(dl.attempts) /\ dl.result = "path")
    /\ dl.result = "False" => \A k \in 1..Len(dl.attempts) : dl.attempts[k].size <= 0

\* C12: download_url makes at most max_retries attempts; it returns the path at the
\* first attempt that ends without an error and leaves a file of size > 0, and makes
\* no attempt after it; it returns False after max_retries attempts of which none
\* did; the path it returns is never that of a missing or empty file; an error that
\* is no request error leaves it at once.
C12_Terminates ==
    LET n == Len(dl.attempts)
    IN  /\ n <= dl.max_retries
        /\ \A k \in 1..n : Good(k) => (k = n /\ dl.result = "path")
        /\ dl.result = "path" => (n >= 1 /\ Good(n) /\ dl.size > 0)
        /\ dl.result = "False" => (n = dl.max_retries /\ \A k \in 1..n : ~Good(k))
        /\ dl.result = "raised" => (n >= 1 /\ dl.attempts[n].kind = "oserror")
        /\ \A k \in 1..n : dl.attempts[k].kind = "oserror" => k = n
        /\ (dl.result = "running" /\ n = dl.max_retries) => ENABLED GiveUp

\* the path is returned at the last attempt, after a stream that broke with a part
\* of the body on disk and after an empty response
C12_Witness ==
    /\ dl.result = "path"
    /\ Len(dl.attempts) = dl.max_retries
    /\ dl.max_retries = MaxRetries
    /\ dl.attempts[1].kind = "broken" /\ dl.attempts[1].size > 0
    /\ dl.attempts[2].kind = "ok" /\ dl.attempts[2].size = 0

\* C17: a timeout or a 5xx response is followed by another attempt while attempts are
\* left, whereas after a 4xx response download_url makes no further attempt and does
\* not sleep: the URL is given up at once.
C17_PermanentNotRetried ==
    \A k \in 1..Len(dl.attempts) :
        /\ (dl.attempts[k].kind \in {"timeout", "http5xx"} /\ k = Len(dl.attempts)
              /\ k < dl.max_retries) => CanAttempt
        /\ dl.attempts[k].kind = "http4xx" => k = Len(dl.attempts)

(***************************************************************************)
(* More claims on the tail server (SpecTail).                              *)
(***************************************************************************)
\* the reader stands at the start of the k-th record, of which the file holds a part
Partial(k) ==
    /\ k <= Len(written)
    /\ connected
    /\ offset = EndOf(k - 1)
    /\ Len(tfile) > offset
    /\ ~Complete(k)

\* C13: the reader's offset is always the end of the last record it forwarded, inside
\* the file, and every forwarded record was whole in the file when it was forwarded;
\* a step moves the offset only forward, by 5 + length of the one record it forwards,
\* and leaves it alone on a short header or payload; a record the reader met
\* incomplete is forwarded once it is whole, while the client stays connected.
C13_NoPartialForward ==
    /\ [](/\ offset = EndOf(Len(sent))
          /\ offset <= Len(tfile)
          /\ Len(sent) <= Len(written)
          /\ \A k \in 1..Len(sent) : Len(sent[k]) = 2 + Len(written[k].data))
    /\ [][/\ offset' >= offset
          /\ sent' # sent =>
                /\ Len(sent') = Len(sent) + 1
                /\ Complete(Len(sent'))
                /\ offset' = offset + HEADER_SIZE + Len(written[Len(sent')].data)
          /\ sent' = sent => offset' = offset]_vars
    /\ \A k \in 1..MaxRecords :
          [](Partial(k) => []((Complete(k) /\ connected) => <>(Len(sent) >= k \/ ~connected)))

\* the reader is inside its read loop at the second record, whose header is in the
\* file and whose payload is not
C13_Witness ==
    /\ Partial(2)
    /\ rpc = "read"
    /\ Len(sent) = 1
    /\ Len(tfile) >= offset + HEADER_SIZE
    /\ written[2].data # <<>>

(***************************************************************************)
(* Claims on the payload layout and on the quantizer's scale.              *)
(***************************************************************************)
\* the u16 LE that follows the four bytes of valid_time in a record's payload
MetaLen(record) == PayloadHead(record)[5] + 256 * PayloadHead(record)[6]

\* C14: in every record a run has written to a stream file the payload is valid_time (u32 LE), then
\* meta_len (u16 LE), then the metadata and the body; meta_len is 0 on every P-frame
\* and not 0 on every I-frame.
C14_PayloadLayout ==
    \A f \in FileIds : \A k \in 1..Len(files[f]) :
      (\E w \in Workers : env.job[w] = f[1] /\ log[w][f[2]] # <<>>) =>
        /\ UnpackU32LE(SubSeq(PayloadHead(files[f][k]), 1, 4)) = files[f][k].payload.valid_time
        /\ files[f][k].type = TYPE_P_FRAME => MetaLen(files[f][k]) = 0
        /\ files[f][k].type = TYPE_I_FRAME => MetaLen(files[f][k]) > 0

\* the scale of the claim for a first frame: by the range of its valid pixels
ClaimedScale(data) ==
    LET valid == {data[k] : k \in {j \in DOMAIN data : ~IsNaN(data[j])}}
        R     == SetMax(valid) - SetMin(valid)
    IN  IF valid = {} THEN 100
        ELSE IF R <= 5 THEN 10000
        ELSE IF R <= 15 THEN 100
        ELSE IF R <= 200 THEN 10
        ELSE 1

\* C15: the stream's first frame is quantized with the scale its range gives (10000
\* for a range of at most 5): in the I-frame of frame 0 each valid pixel v outside the
\* metadata pixels is stored as the integer v * scale.
C15_ScaleBuckets ==
    LET metadata == Metadata(cin.first)
        image    == IFrameBase(cin.first, metadata, 1).payload.body
    IN  (dec.stage = "iprev" /\ cin.prev = cin.first) =>
            \A k \in (MetaPixels + 1)..GridWidth :
                ~IsNaN(cin.first[k]) =>
                    image[k][1] = cin.first[k] * ClaimedScale(cin.first)

(***************************************************************************)
(* Claims on generate_url_list (SpecGen).                                  *)
(***************************************************************************)
\* the forecast hour a URL was formatted from
RECURSIVE FhourOf(_)
FhourOf(ds) == IF ds = <<>> THEN 0 ELSE 10 * FhourOf(SubSeq(ds, 1, Len(ds) - 1)) + ds[Len(ds)]

\* C16: the URLs come in non-decreasing forecast-hour order over 0..forecast_duration;
\* for NOMADS there is exactly one URL per forecast hour, forecast_duration + 1 in
\* all, each with the parameters of every variable; otherwise there is exactly one URL
\* for each (forecast hour, variable) whose hour is not in the variable's skip list,
\* and none for the others.
C16_UrlList ==
    gen.done =>
        LET urls == gen.urls
            vars_ == gen.cfg.variables
            D    == get_forecast_duration(gen.cfg, gen.cycle)
            At(fh, q) == {j \in 1..Len(urls) : FhourOf(urls[j].fhour) = fh /\ urls[j].query = q}
        IN  /\ \A i \in 1..Len(urls) : \A j \in i..Len(urls) :
                  FhourOf(urls[i].fhour) <= FhourOf(urls[j].fhour)
            /\ \A j \in 1..Len(urls) :
                  /\ FhourOf(urls[j].fhour) \in 0..D
                  /\ urls[j].cycle = gen.cycle
            /\ gen.cfg.source_agency = "NOMADS" =>
                  /\ Len(urls) = D + 1
                  /\ \A fh \in 0..D :
                        /\ FhourOf(urls[fh + 1].fhour) = fh
                        /\ urls[fh + 1].query = [i \in DOMAIN vars_ |->
                                                   <<vars_[i].url_id, vars_[i].url_level>>]
            /\ gen.cfg.source_agency # "NOMADS" =>
                  /\ \A fh \in 0..D : \A i \in DOMAIN vars_ :
                        Cardinality(At(fh, << <<vars_[i].url_id, vars_[i].url_level>> >>))
                            = IF fh \in vars_[i].skip THEN 0 ELSE 1
                  /\ Len(urls) = Cardinality({p \in (0..D) \X DOMAIN vars_ :
                                                 p[1] \notin vars_[p[2]].skip})

\* a list of one URL per variable and hour from which a skip list has taken pairs,
\* the last forecast hour being there
C16_Witness ==
    /\ gen.done
    /\ gen.cfg.source_agency = "ECCC"
    /\ Len(gen.cfg.variables) = 2
    /\ gen.cfg.variables[1].skip = {0}
    /\ gen.cfg.variables[2].skip = {}
    /\ get_forecast_duration(gen.cfg, gen.cycle) = MaxFhour
    /\ Len(gen.urls) = 2 * (MaxFhour + 1) - 1
    /\ FhourOf(gen.urls[Len(gen.urls)].fhour) = MaxFhour

(***************************************************************************)
(* More claims on the lock, the ticks and the stream state.                *)
(***************************************************************************)
\* C18: while a worker is processing its cycle, from the creation of the lock to the
\* finally block, the lock file of its (model, cycle) exists: no other worker has
\* removed it.
C18_LockHeldWhileProcessing ==
    \A w \in Workers : pc[w] \in Processing \cup {"cleanup"} => env.job[w] \in lock

\* C19: once a run has gone through the whole URL list of a cycle, no later step, of
\* a later tick for the same cycle either, deletes or rewrites a record of its stream
\* files: what a file holds stays a prefix of what it holds next.
C19_IdempotentAcrossTicks ==
    [][env.completed => \A f \in FileIds : IsPrefix(files[f], files'[f])]_vars

\* C20: every call of a stream after frame 0 is handed the raster of the call before
\* it as the previous raster; between the encoder calls of a run the stream's state
\* holds the raster of the last frame appended; and (one worker) each P-frame record is the
\* delta between the two rasters, both quantized under the metadata of frame 0.
C20_PFrameAgainstLast ==
    \A w \in Workers : \A s \in Streams :
        LET L      == log[w][s]
            frozen == Metadata(L[1].data)
        IN  Len(L) >= 1 =>
              /\ \A k \in 2..Len(L) : L[k].prev = L[k - 1].data
              /\ (pc[w] \in {"fetch", "band"} /\ streams[w][s] # NoStream) =>
                     streams[w][s].last_array = L[Len(L)].data
              /\ env.workers = {w} =>
                   \A layer \in Layers :
                       LET file == files[FileOf(w, s, layer)]
                       IN  \A k \in 2..Len(file) :
                             file[k].type = TYPE_P_FRAME =>
                               file[k].payload.body =
                                 IF layer = "base"
                                 THEN [j \in 1..GridWidth |->
                                         BaseLayer(L[k].data, frozen)[j]
                                           - BaseLayer(L[k - 1].data, frozen)[j]]
                                 ELSE [j \in 1..GridWidth |->
                                         ResLayer(L[k].data, frozen)[j]
                                           - ResLayer(L[k - 1].data, frozen)[j]]

\* a P-frame has followed an I-frame that was not frame 0, and a P-frame has followed
\* a P-frame, each against another raster than frame 0
C20_Witness ==
    \E w \in Workers : \E s \in Streams :
        LET L == log[w][s]
        IN  /\ Len(L) >= 11
            /\ L[9].type = TYPE_I_FRAME /\ L[10].type = TYPE_P_FRAME
            /\ L[11].type = TYPE_P_FRAME
            /\ L[9].data # L[1].data /\ L[10].data # L[9].data /\ L[11].data # L[10].data
            /\ Len(files[FileOf(w, s, "detail")]) = 11

(***************************************************************************)
(* Claims on the worker's error handling (SpecRun, SpecTicks, Spec).       *)
(***************************************************************************)
\* stream s has a band in the file of task.urls[i]
HasBand(s, i) == \E k \in DOMAIN StreamResults(i) : StreamResults(i)[k].stream_id = s

\* the URLs before position n that gave stream s a frame
Fed(s, n) == {i \in 0..n - 1 : i \notin env.fail /\ HasBand(s, i)}

\* C21: a URL whose download fails or whose file has no matching band is passed over:
\* the step moves the worker to the next URL and changes no stream state and no file,
\* and no band of it is encoded; at the head of the URL loop the calls of a stream are
\* those of the URLs that were not skipped, the k-th of them with frame count k - 1.
C21_SkipContinues ==
    /\ [][\A w \in Workers :
            (/\ pc[w] = "fetch" /\ idx[w] < env.urls /\ idx[w] \in env.fail
             /\ (pc'[w] # pc[w] \/ idx'[w] # idx[w]))
              => /\ streams' = streams /\ files' = files /\ log' = log
                 /\ \/ pc'[w] = "fetch" /\ idx'[w] = idx[w] + 1
                    \/ pc'[w] = "cleanup" /\ idx'[w] = idx[w]]_vars
    /\ [](\A w \in Workers : \A s \in Streams :
            pc[w] = "fetch" =>
                LET L == log[w][s]
                IN  /\ Len(L) = Cardinality(Fed(s, idx[w]))
                    /\ {L[k].valid_time : k \in 1..Len(L)} = {ValidTime(i) : i \in Fed(s, idx[w])}
                    /\ \A k \in 1..Len(L) :
                          /\ L[k].frame_count = k - 1
                          /\ L[k].type = (IF (k - 1) % I_FRAME_INTERVAL = 0 THEN I ELSE P)
                    /\ streams[w][s] # NoStream => streams[w][s].frame_count = Len(L) - 1)

\* a URL in the middle of the list was skipped and the stream's ninth frame, an
\* I-frame, came from the URL after the one that would have given it
C21_Witness ==
    /\ env.fail = {3}
    /\ env.layout = "single"
    /\ pc["w1"] = "fetch"
    /\ Len(log["w1"]["s1"]) >= 9
    /\ log["w1"]["s1"][9].type = I
    /\ log["w1"]["s1"][9].valid_time = ValidTime(9)
    /\ Len(files[FileOf("w1", "s1", "base")]) >= 9

\* the run of worker w stopped before the end of its URL list with frames appended
Failed(w) ==
    /\ pc[w] \in {"cleanup", "unlock", "done"}
    /\ idx[w] < env.urls
    /\ \E s \in Streams : log[w][s] # <<>>

\* C22: a worker in which a call raises goes to the finally block at that step and
\* from there returns: it encodes no further band, takes no further URL, changes no
\* file, removes the lock and does not leave by an exception; the records of the calls
\* it made, the base record of a call cut between its two writes included, are in the
\* files when it has returned; while the run goes on no call is left half written.
C22_AbortOnFailure ==
    /\ [][\A w \in Workers :
            /\ (pc[w] \in Processing /\ pc'[w] \notin Processing)
                  => /\ pc'[w] = "cleanup"
                     /\ files' = files /\ log' = log /\ lock' = lock
            /\ (pc[w] \in {"cleanup", "unlock"} /\ pc'[w] # pc[w])
                  => /\ pc'[w] \in {"unlock", "done"}
                     /\ files' = files /\ log' = log /\ idx' = idx /\ streams' = streams
                     /\ pc'[w] = "done" => env.job[w] \notin lock']_vars
    /\ [](\A w \in Workers : \A s \in Streams :
            LET L      == log[w][s]
                base   == files[FileOf(w, s, "base")]
                detail == files[FileOf(w, s, "detail")]
            IN  /\ pc[w] # "raised"
                /\ (pc[w] \in {"fetch", "band"} /\ L # <<>>)
                      => (Len(base) = Len(L) /\ Len(detail) = Len(L))
                /\ (Failed(w) /\ L # <<>>)
                      => /\ base = [k \in 1..Len(L) |-> RecordOf(L[k], "base")]
                         /\ IsPrefix(detail, [k \in 1..Len(L) |-> RecordOf(L[k], "detail")])
                         /\ Len(detail) >= Len(L) - 1
                /\ (Failed(w) /\ pc[w] = "done") => env.job[w] \notin lock)

\* a call raised between the base and the detail write of the second URL; the worker
\* has returned, the lock is gone and the records are in the files
C22_Witness ==
    /\ Failed("w1")
    /\ pc["w1"] = "done"
    /\ idx["w1"] = 1
    /\ Job1 \notin lock
    /\ Len(log["w1"]["s1"]) = 2
    /\ Len(files[FileOf("w1", "s1", "base")]) = 2
    /\ Len(files[FileOf("w1", "s1", "detail")]) = 1

\* C23: the step of a worker that finds the lock of its (model, cycle) present is its
\* return: it leaves the lock, the stream files and its own state as they were; a
\* worker that has returned beside a lock has taken no URL, made no encoder call, and
\* the files hold what the previous cycle left in them.
C23_SkipOnLock ==
    /\ [][\A w \in Workers :
            (pc[w] = "check" /\ env.job[w] \in lock /\ pc'[w] # pc[w])
              => /\ pc'[w] = "done"
                 /\ lock' = lock /\ files' = files
                 /\ idx'[w] = idx[w] /\ streams'[w] = streams[w] /\ log'[w] = log[w]]_vars
    /\ [](\A w \in Workers :
            (env.workers = {w} /\ pc[w] = "done" /\ env.job[w] \in lock)
              => /\ idx[w] = 0
                 /\ \A s \in Streams : log[w][s] = <<>> /\ streams[w][s] = NoStream
                 /\ \/ \A f \in FileIds : files[f] = <<>>
                    \/ \A f \in FileIds :
                          f[1] = env.job[w] => files[f] = StaleStream(f[3]))

\* the worker has returned; the lock it found and the files of the cycle before are
\* still there
C23_Witness ==
    /\ pc["w1"] = "done"
    /\ lock = {Job1}
    /\ idx["w1"] = 0
    /\ \A s \in Streams : \A layer \in Layers :
          files[FileOf("w1", s, layer)] = StaleStream(layer)

(***************************************************************************)
(* More claims on download_url (SpecDl).                                   *)
(***************************************************************************)
\* C24: download_url has slept once between every two consecutive attempts, whatever
\* made the earlier one fail, and not after the last: after n attempts it has slept n
\* times when a further attempt follows and n - 1 times when none does.
C24_SleepBetweenAttempts ==
    LET n == Len(dl.attempts)
    IN  dl.slept = IF n = 0 THEN 0
                   ELSE IF CanAttempt THEN n
                   ELSE n - 1

(***************************************************************************)
(* Claims on the order of the records and on the stream states (SpecRun).  *)
(***************************************************************************)
\* the position in task.urls of the file a frame came from
UrlOf(valid_time) == CHOOSE i \in 0..env.urls - 1 : ValidTime(i) = valid_time

\* C25: in a stream file a worker has written, the k-th record is the frame of the
\* k-th call the worker made for the stream, and the records stand in the order of the
\* URL list: of two records the earlier one comes from the URL at the lower position.
C25_RecordsInUrlOrder ==
    \A w \in Workers : \A s \in Streams : \A layer \in Layers :
        LET L    == log[w][s]
            file == files[FileOf(w, s, layer)]
        IN  (env.workers = {w} /\ L # <<>>) =>
              /\ Len(file) <= Len(L)
              /\ \A k \in 1..Len(file) :
                    /\ file[k].payload.valid_time = L[k].valid_time
                    /\ file[k].type = L[k].type
              /\ \A a \in 1..Len(file) : \A b \in 1..Len(file) :
                    a < b => UrlOf(file[a].payload.valid_time) < UrlOf(file[b].payload.valid_time)
              /\ \A k \in 1..Len(L) : UrlOf(L[k].valid_time) < idx[w] + 1

\* with one variable per file in turn, the second stream's file holds the frames of
\* the URLs at positions 1, 3, 5 in that order
C25_Witness ==
    /\ env.layout = "turns"
    /\ env.fail = {}
    /\ Len(files[FileOf("w1", "s2", "detail")]) = 3
    /\ files[FileOf("w1", "s2", "detail")][1].payload.valid_time = ValidTime(1)
    /\ files[FileOf("w1", "s2", "detail")][2].payload.valid_time = ValidTime(3)
    /\ files[FileOf("w1", "s2", "detail")][3].payload.valid_time = ValidTime(5)

(***************************************************************************)
(* Claims on the driver and on workers of different cycles (SpecDrv,       *)
(* SpecPar).                                                               *)
(***************************************************************************)
\* the k-th model has a cycle in the last 24 hours whose window holds the time
ReadyModel(k) ==
    \E i \in 0..23 :
        LET c == sched.now - (sched.now % 60) - 60 * i
        IN  /\ (c \div 60) % 24 \in sched.models[k].all_cycles
            /\ c + sched.models[k].lead_minutes <= sched.now
            /\ sched.now <= c + sched.models[k].lead_minutes + MAX_WAIT_MINUTES

DistinctIds ==
    \A a \in 1..Len(sched.models) : \A b \in 1..Len(sched.models) :
        a # b => sched.models[a].id # sched.models[b].id

Running(w) == pc[w] \notin {"off", "done", "raised"}

\* C26: while the driver is inside a tick, one worker has been submitted for each model
\* whose window holds the time of the tick and none for another model, each for the lock
\* of its model and READY cycle; workers are submitted only when no worker is running,
\* and the tick is left only when every submitted worker has returned; with distinct
\* model ids no two workers of one (model, cycle) are running together.
C26_OneWorkerPerReadyModel ==
    /\ [](env.driver = "wait" =>
            /\ \A k \in 1..Len(sched.models) :
                  Cardinality({j \in 1..Len(env.tasks) : env.tasks[j].k = k})
                      = IF ReadyModel(k) THEN 1 ELSE 0
            /\ Cardinality(env.workers) = Len(env.tasks)
            /\ \A j \in 1..Len(env.tasks) :
                  /\ WorkerAt(j) \in env.workers
                  /\ env.job[WorkerAt(j)][1] = sched.models[env.tasks[j].k].id
            /\ \A w \in Workers : w \notin env.workers => pc[w] = "off")
    /\ [](env.driver # "wait" => \A w \in Workers : ~Running(w))
    /\ [][/\ (\E w \in Workers : pc'[w] = "check" /\ pc[w] # "check")
                => \A v \in Workers : ~Running(v)
          /\ (env.driver = "wait" /\ env'.driver # "wait")
                => \A w \in env.workers : pc[w] \in {"done", "raised"}]_vars
    /\ [](DistinctIds =>
            \A w \in Workers : \A v \in Workers :
                (w # v /\ Running(w) /\ Running(v)) => env.job[w] # env.job[v])

\* in the third tick the driver waits for the one worker of the tick: the second model
\* is READY for its 18:00 cycle and the first model, whose window has closed, has none
C26_Witness ==
    /\ env.driver = "wait"
    /\ env.tick = 2
    /\ DistinctIds
    /\ sched.now = Noon + 390
    /\ Len(env.tasks) = 1
    /\ env.tasks[1].k = 2
    /\ env.job["w1"] = lock_filename("m2", Noon + 360)
    /\ pc["w1"] = "wdetail"
    /\ pc["w2"] = "off"
    /\ files[<<lock_filename("m1", Noon), "s1", "base">>] # <<>>

\* C27: the lock name of a worker holds the model id, the date and the hour of its
\* cycle, so workers of different (model, cycle) have different lock names; a worker
\* returns at the lock test only beside a lock of its own (model, cycle), which an
\* earlier run left, whatever the other worker does; and while it is processing, its
\* lock is there: the other worker has not removed it.
C27_LocksPerModelCycle ==
    /\ [](\A w \in Workers :
            /\ env.job[w][1] = env.task[w][1]
            /\ env.job[w][2] = env.task[w][2] \div 1440
            /\ env.job[w][3] = (env.task[w][2] \div 60) % 24
            /\ \A v \in Workers : env.task[w] # env.task[v] => env.job[w] # env.job[v]
            /\ pc[w] \in Processing \cup {"cleanup"} => env.job[w] \in lock)
    /\ [][\A w \in Workers :
            /\ (pc[w] = "check" /\ pc'[w] = "done")
                  => (env.job[w] \in lock /\ env.job[w] \in env.stale)
            /\ (pc[w] = "check" /\ env.job[w] \notin env.stale /\ pc'[w] # pc[w])
                  => pc'[w] = "create"]_vars

\* the workers of the 12:00 cycles of two days of one model are both between the
\* two writes of a frame, each under its own lock
C27_Witness ==
    /\ env.task["w2"] = <<"m1", Noon + 1440>>
    /\ pc["w1"] = "wdetail"
    /\ pc["w2"] = "wdetail"
    /\ lock = {lock_filename("m1", Noon), lock_filename("m1", Noon + 1440)}
    /\ env.stale = {}

(***************************************************************************)
(* Claims on get_forecast_duration (SpecGen).                              *)
(***************************************************************************)
\* the URL list of a forecast of length 0: forecast hour 0 only
HourZeroOnly ==
    /\ \A j \in 1..Len(gen.urls) : FhourOf(gen.urls[j].fhour) = 0
    /\ gen.cfg.source_agency = "NOMADS" => Len(gen.urls) = 1
    /\ gen.cfg.source_agency # "NOMADS" =>
          Len(gen.urls) = Cardinality({i \in DOMAIN gen.cfg.variables :
                                          0 \notin gen.cfg.variables[i].skip})

\* C28 as stated: the duration is that of the long run when the hour is in the long
\* run's list, else that of the short run when it is in the short run's list, else 0,
\* for every configuration; and a duration of 0 gives the URLs of forecast hour 0 only.
C28_ForecastDuration ==
    gen.done =>
        LET D == get_forecast_duration(gen.cfg, gen.cycle)
        IN  /\ D = IF gen.cfg.cycle_configs /\ gen.cycle \in LongRunHours
                   THEN gen.cfg.long_run
                   ELSE IF gen.cfg.cycle_configs /\ gen.cycle \in ShortRunHours
                        THEN gen.cfg.short_run
                        ELSE 0
            /\ D = 0 => HourZeroOnly

\* C28: with cycle_configs in the schedule the duration is that of the long run when
\* the hour is in the long run's list (in both lists too), else that of the short run
\* when it is in the short run's list, else 0; without cycle_configs it is the
\* schedule's forecast_hours for an hour of all_cycles and 0 for any other hour; a
\* duration of 0 gives the URLs of forecast hour 0 only.
C28_ForecastDurationOrSimple ==
    gen.done =>
        LET D == get_forecast_duration(gen.cfg, gen.cycle)
            h == gen.cycle
        IN  /\ (gen.cfg.cycle_configs /\ h \in LongRunHours) => D = gen.cfg.long_run
            /\ (gen.cfg.cycle_configs /\ h \notin LongRunHours /\ h \in ShortRunHours)
                  => D = gen.cfg.short_run
            /\ (gen.cfg.cycle_configs /\ h \notin LongRunHours /\ h \notin ShortRunHours)
                  => D = 0
            /\ (~gen.cfg.cycle_configs /\ h \in LongRunHours \cup ShortRunHours)
                  => D = gen.cfg.forecast_hours
            /\ (~gen.cfg.cycle_configs /\ h \notin LongRunHours \cup ShortRunHours)
                  => D = 0
            /\ D = 0 => HourZeroOnly

\* the URL list of a cycle whose hour is in both lists, the runs being of different
\* lengths, has been generated with the long run's length
C28_Witness ==
    /\ gen.done
    /\ gen.cfg.cycle_configs
    /\ gen.cycle \in LongRunHours \cap ShortRunHours
    /\ gen.cfg.long_run # gen.cfg.short_run
    /\ gen.cfg.source_agency = "NOMADS"
    /\ Len(gen.urls) = gen.cfg.long_run + 1

(***************************************************************************)
(* Claims on the state map of a run (SpecRun).                             *)
(***************************************************************************)
\* C29: between the encoder calls of a run, a stream is in the worker's state map
\* exactly when the run has appended to it, and its frame_count is the number of
\* records the run has appended to each of its files, minus one; a step changes the
\* state and the files of the one stream whose frame it appends and of no other; so
\* the count of each stream goes 0, 1, 2, ... over its own calls, however the calls of
\* the streams interleave.
C29_PerStreamCount ==
    /\ [](\A w \in Workers : \A s \in Streams :
            LET L == log[w][s]
            IN  /\ pc[w] \in {"fetch", "band"} =>
                      /\ (streams[w][s] = NoStream) <=> (L = <<>>)
                      /\ streams[w][s] # NoStream =>
                            /\ streams[w][s].frame_count = Len(L) - 1
                            /\ env.workers = {w} =>
                                  \A layer \in Layers :
                                      streams[w][s].frame_count
                                          = Len(files[FileOf(w, s, layer)]) - 1
                /\ \A k \in 1..Len(L) : L[k].frame_count = k - 1)
    /\ [][\A w \in Workers : \A s \in Streams :
            (streams'[w][s] # streams[w][s] /\ pc[w] = "wdetail")
              => /\ Head(pending[w]).stream_id = s
                 /\ \A t \in Streams \ {s} :
                       /\ streams'[w][t] = streams[w][t]
                       /\ \A layer \in Layers :
                             files'[FileOf(w, t, layer)] = files[FileOf(w, t, layer)]]_vars

\* with one variable per file in turn, the first stream has had nine frames and the
\* second eight; the ninth frame of the first is its I-frame
C29_Witness ==
    /\ env.layout = "turns"
    /\ pc["w1"] = "fetch"
    /\ streams["w1"]["s1"] # NoStream /\ streams["w1"]["s2"] # NoStream
    /\ streams["w1"]["s1"].frame_count = 8
    /\ streams["w1"]["s2"].frame_count = 7
    /\ log["w1"]["s1"][9].type = I
    /\ Len(files[FileOf("w1", "s2", "base")]) = 8

(***************************************************************************)
(* More claims on check_download_status (SpecSched).                       *)
(***************************************************************************)
\* C30: the result is NO_CYCLE, without a cycle, exactly when all_cycles has no hour
\* of 0..23; any other result comes with a cycle that is a whole hour, whose hour is
\* in all_cycles and that lies after now - 24h and not after now.
C30_CycleInLastDay ==
    status # NotChecked =>
        /\ (status.status = "NO_CYCLE") <=> (sched.all_cycles \cap (0..23) = {})
        /\ status.status = "NO_CYCLE" => status.cycle = None
        /\ status.status # "NO_CYCLE" =>
              /\ status.status \in {"READY", "WAITING", "MISSED"}
              /\ status.cycle # None
              /\ status.cycle % 60 = 0
              /\ (status.cycle \div 60) % 24 \in sched.all_cycles
              /\ sched.now - 1440 < status.cycle
              /\ status.cycle <= sched.now

\* one minute before noon the cycle returned is the noon of the day before, 23 hours
\* and 59 minutes back
C30_Witness ==
    /\ status # NotChecked
    /\ sched.all_cycles = {12}
    /\ sched.now % 1440 = 11 * 60 + 59
    /\ status.status = "MISSED"
    /\ status.cycle = sched.now - 1439

====
